---------------------------- MODULE Spec2Model ----------------------------
(***************************************************************************)
(* Model of ouroboros/tools/knowledge.py: the topic-keyed knowledge store  *)
(* (read / write / list) with its topic sanitizer, path resolver and       *)
(* self-maintained index file.                                             *)
(*                                                                         *)
(* Text is modelled as a sequence of one-character strings, so that        *)
(* strip(), split(), lower(), slicing and the newline translation of       *)
(* text-mode file I/O are computed character by character.                 *)
(***************************************************************************)
EXTENDS Integers, Sequences, FiniteSets, TLC

VARIABLES
    dirExists,  \* whether <root>/memory/knowledge exists
    files,      \* the files the handlers can open: file name of the directory
                \* |-> characters stored, location elsewhere |-> characters stored
    last,       \* the last completed tool call: its arguments and result
    san,        \* a sanitizer run of its own: [raw, state, verdict]
    links,      \* symbolic links planted in the directory: file name |-> location
    io,         \* of the last call: the files it opened to read and to write,
                \* and the I/O failure it met
    writers,    \* overlapping writes: writer |-> its position in
                \* _knowledge_write and its local variables
    hist        \* of the overlapping writes: the order their content writes
                \* landed in, and whether one was interrupted by the other

vars == <<dirExists, files, last, san, links, io, writers, hist>>

---------------------------------------------------------------------------
(* Characters *)

Lowers == <<"a","b","c","d","e","f","g","h","i","j","k","l","m",
            "n","o","p","q","r","s","t","u","v","w","x","y","z">>
Uppers == <<"A","B","C","D","E","F","G","H","I","J","K","L","M",
            "N","O","P","Q","R","S","T","U","V","W","X","Y","Z">>
Digits == <<"0","1","2","3","4","5","6","7","8","9">>

Range(s) == {s[i] : i \in DOMAIN s}

\* [a-zA-Z0-9]
Alnum == Range(Lowers) \cup Range(Uppers) \cup Range(Digits)
\* [a-zA-Z0-9_.-]
Inner == Alnum \cup {"_", ".", "-"}

\* the characters str.strip() removes (ASCII part)
Whitespace == {" ", "\t", "\n", "\r", "\f"}

\* str.lower() on one character
LowerChar(c) ==
    IF c \in Range(Uppers)
    THEN Lowers[CHOOSE i \in DOMAIN Uppers : Uppers[i] = c]
    ELSE c

Lower(s) == [i \in DOMAIN s |-> LowerChar(s[i])]

\* the first index of s whose character is not in cs; 0 when there is none
FirstNotIn(s, cs) ==
    LET keep == {i \in DOMAIN s : s[i] \notin cs}
    IN  IF keep = {} THEN 0 ELSE CHOOSE i \in keep : \A j \in keep : i <= j

Reverse(s) == [i \in DOMAIN s |-> s[Len(s) + 1 - i]]

\* str.lstrip(cs)
LStrip(s, cs) ==
    LET k == FirstNotIn(s, cs)
    IN  IF k = 0 THEN <<>> ELSE SubSeq(s, k, Len(s))

\* str.rstrip(cs)
RStrip(s, cs) ==
    LET k == FirstNotIn(Reverse(s), cs)
    IN  IF k = 0 THEN <<>> ELSE SubSeq(s, 1, Len(s) + 1 - k)

\* str.strip()
Strip(s) == RStrip(LStrip(s, Whitespace), Whitespace)

\* sub in s, for a two-character sub
HasPair(s, c1, c2) == \E i \in 1..(Len(s) - 1) : s[i] = c1 /\ s[i + 1] = c2

Rep(c, n) == [i \in 1..n |-> c]

\* s[:n]
Take(s, n) == SubSeq(s, 1, IF Len(s) < n THEN Len(s) ELSE n)

---------------------------------------------------------------------------
(* Sanitization *)

\* the quantifier bounds of _VALID_TOPIC: {0,98} between two boundary characters
VALID_INNER_MAX == 98

\* _VALID_TOPIC.match(topic):
\*   ^[a-zA-Z0-9][a-zA-Z0-9_.-]{0,98}[a-zA-Z0-9]$ | ^[a-zA-Z0-9]$
\* ($ also matches before one trailing "\n")
MatchBody(t) ==
    \/ /\ Len(t) >= 2
       /\ Len(t) - 2 <= VALID_INNER_MAX
       /\ t[1] \in Alnum
       /\ t[Len(t)] \in Alnum
       /\ \A i \in 2..(Len(t) - 1) : t[i] \in Inner
    \/ /\ Len(t) = 1
       /\ t[1] \in Alnum

VALID_TOPIC(t) ==
    \/ MatchBody(t)
    \/ /\ Len(t) >= 1
       /\ t[Len(t)] = "\n"
       /\ MatchBody(SubSeq(t, 1, Len(t) - 1))

RESERVED == { <<"_","i","n","d","e","x">>, <<"c","o","n">>, <<"p","r","n">>,
              <<"a","u","x">>, <<"n","u","l">> }

Ok(t)     == [exc |-> "none", topic |-> t]
Raise(e)  == [exc |-> e, topic |-> <<>>]

\* mutant: the reserved-name test compares without lower()
sanitize_topic_no_lower(raw) ==
    LET topic == Strip(raw)
    IN  IF raw = <<>> THEN Raise("ValueError")
        ELSE IF "/" \in Range(topic) \/ "\\" \in Range(topic)
                \/ HasPair(topic, ".", ".") THEN Raise("ValueError")
        ELSE IF ~VALID_TOPIC(topic) THEN Raise("ValueError")
        ELSE IF topic \in RESERVED THEN Raise("ValueError")
        ELSE Ok(topic)

\* mutant: the pattern admits one more interior character
sanitize_topic_long(raw) ==
    LET topic == Strip(raw)
        m == \/ /\ Len(topic) >= 2
                /\ Len(topic) - 2 <= VALID_INNER_MAX + 1
                /\ topic[1] \in Alnum
                /\ topic[Len(topic)] \in Alnum
                /\ \A i \in 2..(Len(topic) - 1) : topic[i] \in Inner
             \/ Len(topic) = 1 /\ topic[1] \in Alnum
    IN  IF raw = <<>> THEN Raise("ValueError")
        ELSE IF "/" \in Range(topic) \/ "\\" \in Range(topic)
                \/ HasPair(topic, ".", ".") THEN Raise("ValueError")
        ELSE IF ~m THEN Raise("ValueError")
        ELSE IF Lower(topic) \in RESERVED THEN Raise("ValueError")
        ELSE Ok(topic)

\* _sanitize_topic: the validated topic, or ValueError
sanitize_topic(raw) ==
    LET topic == Strip(raw)
    IN  IF raw = <<>> THEN Raise("ValueError")
        ELSE IF "/" \in Range(topic) \/ "\\" \in Range(topic)
                \/ HasPair(topic, ".", ".") THEN Raise("ValueError")
        ELSE IF ~VALID_TOPIC(topic) THEN Raise("ValueError")
        ELSE IF Lower(topic) \in RESERVED THEN Raise("ValueError")
        ELSE Ok(topic)

---------------------------------------------------------------------------
(* Text-mode file I/O (Path.read_text / Path.write_text, newline=None) *)

\* os.linesep of the host the store runs on (POSIX: one character)
LineSep == "\n"

\* write_text: every "\n" written becomes os.linesep
EncodeNewlines(s) == [i \in DOMAIN s |-> IF s[i] = "\n" THEN LineSep ELSE s[i]]

\* read_text: universal newlines, "\r\n" and "\r" are returned as "\n"
ReadText(stored) ==
    LET marked == [i \in DOMAIN stored |->
                     IF stored[i] = "\r" THEN "\n"
                     ELSE IF stored[i] = "\n" /\ i > 1 /\ stored[i - 1] = "\r" THEN "drop"
                     ELSE stored[i]]
    IN  SelectSeq(marked, LAMBDA c : c # "drop")

WriteText(text) == EncodeNewlines(text)

---------------------------------------------------------------------------
(* Paths *)

INDEX_FILE == <<"_","i","n","d","e","x",".","m","d">>
MdSuffix == <<".","m","d">>

\* mutant: the file name keeps only the first character of the topic
PathOf_first(topic) == [dir |-> "KNOWLEDGE_DIR", name |-> Take(topic, 1) \o MdSuffix]

\* kdir / f"{topic}.md"
PathOf(topic) == [dir |-> "KNOWLEDGE_DIR", name |-> topic \o MdSuffix]

\* a location elsewhere is an absolute path, a file name has no separator
Elsewhere(n) == "/" \in Range(n)

NoLinks == [n \in {} |-> <<>>]

\* the file that opening kdir / name opens: a symbolic link is followed
Target(name) == IF name \in DOMAIN links THEN links[name] ELSE name

\* mutant: the path is normalized without following symbolic links
Resolve_nofollow(path) == path

\* Path.resolve(): a symbolic link is replaced by the location it points to
Resolve(path) ==
    IF path.name \in DOMAIN links
    THEN [dir |-> "ELSEWHERE", name |-> links[path.name]]
    ELSE path

\* _safe_path: the path of the topic's file, or ValueError
safe_path(raw) ==
    LET s == sanitize_topic(raw)
    IN  IF s.exc # "none" THEN [exc |-> s.exc, topic |-> <<>>, path |-> PathOf(<<>>)]
        ELSE IF Resolve(PathOf(s.topic)).dir # "KNOWLEDGE_DIR"
             THEN [exc |-> "ValueError", topic |-> <<>>, path |-> PathOf(<<>>)]
        ELSE [exc |-> "none", topic |-> s.topic, path |-> PathOf(s.topic)]

\* Path.exists() of a file of the directory
Exists(path) == dirExists /\ Target(path.name) \in DOMAIN files

\* the directory with file `name` holding `stored`
Put(fs, name, stored) ==
    [n \in DOMAIN fs \cup {name} |-> IF n = name THEN stored ELSE fs[n]]

---------------------------------------------------------------------------
(* Index Builder *)

\* line[:120]
SUMMARY_MAX == 120

\* code points, ascending, of the characters file names are made of
CodeOrder == <<"-", ".">> \o Digits \o Uppers \o <<"_">> \o Lowers
Ord(c) == CHOOSE i \in DOMAIN CodeOrder : CodeOrder[i] = c

\* str < str
RECURSIVE StrLess(_, _)
StrLess(a, b) ==
    IF a = <<>> THEN b # <<>>
    ELSE IF b = <<>> THEN FALSE
    ELSE IF Head(a) = Head(b) THEN StrLess(Tail(a), Tail(b))
    ELSE Ord(Head(a)) < Ord(Head(b))

\* mutant: the names are ordered by topic, not by file name
RECURSIVE Sorted_by_stem(_)
Sorted_by_stem(S) ==
    IF S = {} THEN <<>>
    ELSE LET cut(x) == SubSeq(x, 1, Len(x) - Len(MdSuffix))
             m == CHOOSE x \in S : \A y \in S \ {x} : StrLess(cut(x), cut(y))
         IN  <<m>> \o Sorted_by_stem(S \ {m})

\* sorted(names)
RECURSIVE Sorted(_)
Sorted(S) ==
    IF S = {} THEN <<>>
    ELSE LET m == CHOOSE x \in S : \A y \in S \ {x} : StrLess(x, y)
         IN  <<m>> \o Sorted(S \ {m})

\* text.split("\n")
RECURSIVE Split(_)
Split(s) ==
    LET nl == {i \in DOMAIN s : s[i] = "\n"}
    IN  IF nl = {} THEN <<s>>
        ELSE LET k == CHOOSE i \in nl : \A j \in nl : i <= j
             IN  <<SubSeq(s, 1, k - 1)>> \o Split(SubSeq(s, k + 1, Len(s)))

\* line.strip().lstrip("#").strip()
CleanLine(line) == Strip(LStrip(Strip(line), {"#"}))

\* the loop over text.split("\n"): the first line that is non-empty once
\* cleaned, cut to 120 characters; "" when there is none
RECURSIVE FirstLine(_)
FirstLine(lines) ==
    IF lines = <<>> THEN <<>>
    ELSE LET line == CleanLine(Head(lines))
         IN  IF line # <<>> THEN Take(line, SUMMARY_MAX)
             ELSE FirstLine(Tail(lines))

\* mutant: the summary is not cut to 120 characters
Summary_uncut(stored) ==
    LET lines == Split(Strip(ReadText(stored)))
        k == FirstNotIn([i \in DOMAIN lines |-> CleanLine(lines[i])], {<<>>})
    IN  IF k = 0 THEN <<>> ELSE CleanLine(lines[k])

\* text = f.read_text().strip(), then the loop over its lines
Summary(stored) == FirstLine(Split(Strip(ReadText(stored))))

\* f.stem of a name ending in ".md"
Stem(name) == SubSeq(name, 1, Len(name) - Len(MdSuffix))

\* kdir.glob("*.md")
IsMd(name) ==
    /\ Len(name) >= Len(MdSuffix)
    /\ SubSeq(name, Len(name) - Len(MdSuffix) + 1, Len(name)) = MdSuffix

EntryNames(fs) ==
    {n \in {m \in DOMAIN fs : ~Elsewhere(m)} \cup DOMAIN links : IsMd(n) /\ n # INDEX_FILE}

\* f"- **{topic}**: {first_line}"
EntryLine(topic, summary) == <<"-"," ","*","*">> \o topic \o <<"*","*",":"," ">> \o summary

IndexHeader == <<"#"," ","K","n","o","w","l","e","d","g","e"," ","B","a","s","e"," ","I","n","d","e","x","\n","\n">>
EmptyBody == <<"(","e","m","p","t","y",")","\n">>

\* "\n".join(entries)
RECURSIVE Join(_)
Join(ls) ==
    IF ls = <<>> THEN <<>>
    ELSE IF Len(ls) = 1 THEN Head(ls)
    ELSE Head(ls) \o <<"\n">> \o Join(Tail(ls))

\* a byte sequence that is not valid UTF-8, as one stored character
Undecodable == "0xFF"

\* f.read_text() raises: the link dangles, or the bytes do not decode
ReadFails(fs, name) ==
    \/ Target(name) \notin DOMAIN fs
    \/ Undecodable \in Range(fs[Target(name)])

Unreadable == <<"(","u","n","r","e","a","d","a","b","l","e",")">>

\* mutant: an entry that cannot be read gets no line
IndexEntries_skip(fs) ==
    LET names == SelectSeq(Sorted(EntryNames(fs)), LAMBDA n : ~ReadFails(fs, n))
    IN  [i \in DOMAIN names |-> EntryLine(Stem(names[i]), Summary(fs[Target(names[i])]))]

\* the line _update_index appends to entries for the file `name`
LineOf(fs, name) ==
    IF ReadFails(fs, name)
    THEN EntryLine(Stem(name), Unreadable)
    ELSE EntryLine(Stem(name), Summary(fs[Target(name)]))

\* the entries list of _update_index, in the order of sorted(kdir.glob("*.md"))
IndexEntries(fs) ==
    LET names == Sorted(EntryNames(fs))
    IN  [i \in DOMAIN names |-> LineOf(fs, names[i])]

\* index_content
IndexText(entries) ==
    IF entries # <<>>
    THEN IndexHeader \o Join(entries) \o <<"\n">>
    ELSE IndexHeader \o EmptyBody

IndexContent(fs) == IndexText(IndexEntries(fs))

\* mutant: an index that exists already is left as it is
update_index_once(exists, fs) ==
    IF ~exists \/ INDEX_FILE \in DOMAIN fs THEN fs
    ELSE Put(fs, INDEX_FILE, WriteText(IndexContent(fs)))

\* _update_index: the files after the rebuild
update_index(exists, fs) ==
    IF ~exists THEN fs
    ELSE Put(fs, Target(INDEX_FILE), WriteText(IndexContent(fs)))

NoOpens == [read |-> {}, written |-> {}]

\* _update_index: the files its read_text and write_text open
update_index_opens(exists, fs) ==
    IF ~exists THEN NoOpens
    ELSE [read    |-> {Target(n) : n \in EntryNames(fs)} \cap DOMAIN fs,
          written |-> {Target(INDEX_FILE)}]

---------------------------------------------------------------------------
(* Tool handlers *)

Result(kind, text) == [kind |-> kind, text |-> text]

\* an exception that leaves the handler: its class or errno, and the file
\* name it carries (none for a failure after the file was opened)
Raised(exc, name) == Result("raised", <<exc>> \o name)

\* what a handler does with the outcome of _safe_path: `except ValueError`
\* turns the error into the returned warning, anything else propagates
\* mutant: the handler lets the ValueError of _safe_path propagate
Rejected_uncaught(sp) == Result("raised", <<>>)

Rejected(sp) ==
    IF sp.exc = "ValueError" THEN Result("invalid_topic", <<>>)
    ELSE Result("raised", <<>>)

\* mutant: the file is read without the exists() test, FileNotFoundError
\* propagates
knowledge_read_unchecked(exists, fs, raw) ==
    LET sp == safe_path(raw)
    IN  IF sp.exc # "none" THEN Rejected(sp)
        ELSE IF ~(exists /\ sp.path.name \in DOMAIN fs) THEN Result("raised", <<>>)
        ELSE Result("content", ReadText(fs[sp.path.name]))

\* _knowledge_read: the returned string
knowledge_read(exists, fs, raw) ==
    LET sp == safe_path(raw)
        file == Target(sp.path.name)
    IN  IF sp.exc # "none" THEN Rejected(sp)
        ELSE IF ~(exists /\ file \in DOMAIN fs) THEN Result("not_found", <<>>)
        ELSE IF ReadFails(fs, sp.path.name) THEN Raised("UnicodeDecodeError", <<>>)
        ELSE Result("content", ReadText(fs[file]))

\* the file _knowledge_write reads before it writes: the entry it appends to
Appended(exists, fs, file, mode) ==
    IF mode = "append" /\ exists /\ file \in DOMAIN fs THEN {file} ELSE {}

\* the text _knowledge_write stores at path
NewText(exists, fs, name, content, mode) ==
    IF mode = "append" /\ exists /\ Target(name) \in DOMAIN fs
    THEN LET existing == ReadText(fs[Target(name)])
             sep == IF existing # <<>> /\ existing[Len(existing)] # "\n"
                    THEN <<"\n">> ELSE <<>>
         IN  existing \o sep \o content
    ELSE content

\* an I/O failure in _knowledge_write: at the content write or at the index
\* write. EACCES: open() refuses, the file is left as it was and the OSError
\* carries its name. ENOSPC: the write after open() fails, the file is left
\* truncated and the OSError carries no name.
Errnos == {"EACCES", "ENOSPC"}
Faults == {[point |-> p, errno |-> e] : p \in {"content", "index"}, e \in Errnos}

\* write_text(text) to `name` under that failure: the files and the OSError
FailedWrite(fs, name, errno) ==
    [fs  |-> IF errno = "ENOSPC" THEN Put(fs, Target(name), <<>>) ELSE fs,
     exc |-> Raised(errno, IF errno = "EACCES" THEN name ELSE <<>>)]

\* _knowledge_write of an accepted topic and mode when `fault` strikes: no
\* handler catches OSError, it leaves _knowledge_write as it was raised
knowledge_write_failing(exists, fs, raw, content, mode, fault) ==
    LET sp == safe_path(raw)
        file == Target(sp.path.name)
        text == WriteText(NewText(exists, fs, sp.path.name, content, mode))
        \* the file is opened for writing unless open() refuses
        opened(name) == IF fault.errno = "ENOSPC" THEN {Target(name)} ELSE {}
    IN  IF fault.point = "content"
        THEN LET f == FailedWrite(fs, sp.path.name, fault.errno)
             IN  [result |-> f.exc, dir |-> TRUE, fs |-> f.fs,
                  opens |-> [read    |-> Appended(exists, fs, file, mode),
                             written |-> opened(sp.path.name)]]
        ELSE LET written == Put(fs, file, text)
                 f == FailedWrite(written, INDEX_FILE, fault.errno)
                 rebuild == update_index_opens(TRUE, written)
             IN  [result |-> f.exc, dir |-> TRUE, fs |-> f.fs,
                  opens |-> [read    |-> rebuild.read \cup Appended(exists, fs, file, mode),
                             written |-> {file} \cup opened(INDEX_FILE)]]

\* _knowledge_read: the file its read_text opens
knowledge_read_opens(exists, fs, raw) ==
    LET sp == safe_path(raw)
    IN  IF sp.exc = "none" /\ exists /\ Target(sp.path.name) \in DOMAIN fs
        THEN [read |-> {Target(sp.path.name)}, written |-> {}]
        ELSE NoOpens

\* mutant: _ensure_dir runs before the mode is validated
knowledge_write_dir_first(exists, fs, raw, content, mode) ==
    LET sp == safe_path(raw)
    IN  IF sp.exc # "none"
        THEN [result |-> Rejected(sp), dir |-> exists, fs |-> fs, opens |-> NoOpens]
        ELSE IF mode \notin {"overwrite", "append"}
             THEN [result |-> Result("invalid_mode", <<>>), dir |-> TRUE, fs |-> fs,
                   opens |-> NoOpens]
        ELSE LET written == Put(fs, sp.path.name,
                                WriteText(NewText(exists, fs, sp.path.name, content, mode)))
             IN  [result |-> Result("saved", <<>>),
                  dir    |-> TRUE,
                  fs     |-> update_index(TRUE, written),
                  opens  |-> update_index_opens(TRUE, written)]

\* _knowledge_write: the returned string and the directory it leaves
knowledge_write(exists, fs, raw, content, mode) ==
    LET sp == safe_path(raw)
        file == Target(sp.path.name)
    IN  IF sp.exc # "none"
        THEN [result |-> Rejected(sp), dir |-> exists, fs |-> fs, opens |-> NoOpens]
        ELSE IF mode \notin {"overwrite", "append"}
             THEN [result |-> Result("invalid_mode", <<>>), dir |-> exists, fs |-> fs,
                   opens |-> NoOpens]
        ELSE IF mode = "append" /\ exists /\ file \in DOMAIN fs /\ ReadFails(fs, sp.path.name)
             THEN [result |-> Raised("UnicodeDecodeError", <<>>), dir |-> TRUE, fs |-> fs,
                   opens |-> [read |-> {file}, written |-> {}]]
        ELSE LET written == Put(fs, file,
                                WriteText(NewText(exists, fs, sp.path.name, content, mode)))
                 rebuild == update_index_opens(TRUE, written)
             IN  [result |-> Result("saved", <<>>),
                  dir    |-> TRUE,
                  fs     |-> update_index(TRUE, written),
                  opens  |-> [read    |-> rebuild.read \cup Appended(exists, fs, file, mode),
                              written |-> rebuild.written \cup {file}]]

\* mutant: the directory is created before the index is looked up
knowledge_list_mkdir(exists, fs) ==
    IF exists /\ INDEX_FILE \in DOMAIN fs
    THEN [result |-> Result("index", ReadText(fs[INDEX_FILE])), dir |-> exists, fs |-> fs,
          opens |-> NoOpens]
    ELSE LET built == update_index(TRUE, fs)
         IN  [result |-> Result("index", ReadText(built[INDEX_FILE])),
              dir |-> TRUE, fs |-> built, opens |-> NoOpens]

\* _knowledge_list: the returned string and the directory it leaves
knowledge_list(exists, fs) ==
    LET index == Target(INDEX_FILE)
        \* index_path.read_text()
        returned(f, opens) ==
            IF ReadFails(f, INDEX_FILE)
            THEN [result |-> Raised("UnicodeDecodeError", <<>>), dir |-> exists, fs |-> f,
                  opens |-> [opens EXCEPT !.read = @ \cup {index}]]
            ELSE [result |-> Result("index", ReadText(f[index])), dir |-> exists, fs |-> f,
                  opens |-> [opens EXCEPT !.read = @ \cup {index}]]
    IN  IF exists /\ index \in DOMAIN fs THEN returned(fs, NoOpens)
        ELSE IF exists
             THEN LET built == update_index(exists, fs)
                      opens == update_index_opens(exists, fs)
                  IN  IF index \in DOMAIN built THEN returned(built, opens)
                      ELSE [result |-> Result("empty_store", <<>>), dir |-> exists,
                            fs |-> built, opens |-> opens]
        ELSE [result |-> Result("empty_store", <<>>), dir |-> exists, fs |-> fs,
              opens |-> NoOpens]

---------------------------------------------------------------------------
(* Inputs *)

\* longest stored entry an append is applied to
MaxAppendBase == 1
\* longest topic string drawn exhaustively over TopicChars
MaxTopicLen == 3

\* contents written: empty, plain, a newline, a carriage return, CRLF inside,
\* a heading-only first line, a padded heading, a line longer than the summary
Contents ==
    { <<>>, <<"a">>, <<"\n">>, <<"\r">>, <<"a","\r","\n","b">>, <<"#","\n","b">>, <<" ","#","#"," ","T"," ","\n","x">>,
      Rep("c", SUMMARY_MAX + 5) }

Modes == {"overwrite", "append", "bogus"}

\* topics the handlers are called with: "a", " a" and "a-b" are accepted
Topics == { <<"a">>, <<" ","a">>, <<"a","-","b">>, <<"_","i","n","d","e","x">>, <<"a","/","b">> }

NoCall == [op |-> "none", topic |-> <<>>, content |-> <<>>, mode |-> "",
           result |-> Result("none", <<>>)]
Call(op, topic, content, mode, result) ==
    [op |-> op, topic |-> topic, content |-> content, mode |-> mode, result |-> result]

NoFiles == [n \in {} |-> <<>>]
NoFault == [point |-> "none", errno |-> "none"]
NoIO == [read |-> {}, written |-> {}, fault |-> NoFault]
\* the I/O of a call that met no failure
Opened(opens) == [read |-> opens.read, written |-> opens.written, fault |-> NoFault]
\* no overlapping write is in progress
Writers == {1, 2}
Idle == [pc |-> "idle", topic |-> <<>>, name |-> <<>>, content |-> <<>>, mode |-> "",
         text |-> <<>>, names |-> <<>>, index |-> <<>>]
NoWriters == [w \in Writers |-> Idle]
NoHist == [landed |-> <<>>, overlapped |-> FALSE, tornEntry |-> FALSE,
           tornRebuild |-> FALSE]
NoSan == [raw |-> <<>>, state |-> "idle", verdict |-> Raise("none")]

---------------------------------------------------------------------------
(* The store: the tool dispatcher calls one handler at a time; `last` holds *)
(* the call and its result until the caller has taken it.                   *)

Init ==
    /\ dirExists \in BOOLEAN
    /\ files = NoFiles
    /\ last = NoCall
    /\ san = NoSan
    /\ links = NoLinks
    /\ io = NoIO
    /\ writers = NoWriters
    /\ hist = NoHist

\* mutant: read creates the directory, as write does
Read_ensure_dir(topic) ==
    /\ last = NoCall
    /\ last' = Call("read", topic, <<>>, "", knowledge_read(dirExists, files, topic))
    /\ dirExists' = TRUE
    /\ io' = Opened(knowledge_read_opens(dirExists, files, topic))
    /\ UNCHANGED <<files, san, links, writers, hist>>

Read(topic) ==
    /\ last = NoCall
    /\ last' = Call("read", topic, <<>>, "", knowledge_read(dirExists, files, topic))
    /\ io' = Opened(knowledge_read_opens(dirExists, files, topic))
    /\ UNCHANGED <<dirExists, files, san, links, writers, hist>>

Write(topic, content, mode) ==
    LET sp == safe_path(topic)
        w == knowledge_write(dirExists, files, topic, content, mode)
    IN  /\ last = NoCall
        /\ (sp.exc = "none" /\ mode = "append" /\ Exists(sp.path))
              => Len(files[sp.path.name]) <= MaxAppendBase
        /\ dirExists' = w.dir
        /\ files' = w.fs
        /\ last' = Call("write", topic, content, mode, w.result)
        /\ io' = Opened(w.opens)
        /\ UNCHANGED <<san, links, writers, hist>>

List ==
    LET l == knowledge_list(dirExists, files)
    IN  /\ last = NoCall
        /\ dirExists' = l.dir
        /\ files' = l.fs
        /\ last' = Call("list", <<>>, <<>>, "", l.result)
        /\ io' = Opened(l.opens)
        /\ UNCHANGED <<san, links, writers, hist>>

\* the caller takes the result
Return ==
    /\ last # NoCall
    /\ last' = NoCall
    /\ io' = NoIO
    /\ UNCHANGED <<dirExists, files, san, links, writers, hist>>

Next ==
    \/ \E t \in Topics : Read(t)
    \/ \E t \in Topics, c \in Contents, m \in Modes : Write(t, c, m)
    \/ List
    \/ Return

Spec == Init /\ [][Next]_vars

---------------------------------------------------------------------------
(* The sanitizer on its own: one string in, one verdict out *)

RECURSIVE SeqsUpTo(_, _)
SeqsUpTo(S, n) ==
    IF n = 0 THEN {<<>>}
    ELSE LET shorter == SeqsUpTo(S, n - 1)
         IN  shorter \cup {<<c>> \o t : c \in S, t \in {u \in shorter : Len(u) = n - 1}}

UpperChar(c) ==
    IF c \in Range(Lowers)
    THEN Uppers[CHOOSE i \in DOMAIN Lowers : Lowers[i] = c]
    ELSE c

\* every spelling of w in upper and lower case letters
RECURSIVE CaseVariants(_)
CaseVariants(w) ==
    IF w = <<>> THEN {<<>>}
    ELSE {<<c>> \o r : c \in {Head(w), UpperChar(Head(w))}, r \in CaseVariants(Tail(w))}

TopicChars == {"a", "Z", "0", "_", "-", ".", "/", "\\", " ", "\n"}

BrowserAutomation == <<"b","r","o","w","s","e","r","-","a","u","t","o","m","a","t","i","o","n">>
JoiGotchas == <<"j","o","i","_","g","o","t","c","h","a","s">>

SanInputs ==
    SeqsUpTo(TopicChars, MaxTopicLen)
    \cup UNION {CaseVariants(w) : w \in RESERVED}
    \cup {<<" ">> \o w \o <<"\n">> : w \in RESERVED}
    \cup { BrowserAutomation, JoiGotchas, <<"n","o","t","e","s",".",".","m","d">>, <<"a","\\","b","-","c">>,
           Rep("a", VALID_INNER_MAX + 2), Rep("a", VALID_INNER_MAX + 3),
           <<" ">> \o Rep("a", VALID_INNER_MAX + 2),
           <<"\t">> \o Rep("a", VALID_INNER_MAX + 3),
           <<"a">> \o Rep("-", VALID_INNER_MAX) \o <<"a">>,
           <<"a">> \o Rep("-", VALID_INNER_MAX + 1) \o <<"a">>,
           Rep("a", VALID_INNER_MAX + 1) \o <<".">> }

SanInit ==
    /\ dirExists = FALSE
    /\ files = NoFiles
    /\ last = NoCall
    /\ san \in {[raw |-> r, state |-> "input", verdict |-> Raise("none")] : r \in SanInputs}
    /\ links = NoLinks
    /\ io = NoIO
    /\ writers = NoWriters
    /\ hist = NoHist

Sanitize ==
    /\ san.state = "input"
    /\ san' = [san EXCEPT !.state = "done", !.verdict = sanitize_topic(san.raw)]
    /\ UNCHANGED <<dirExists, files, last, links, io, writers, hist>>

SanNext == Sanitize

SanSpec == SanInit /\ [][SanNext]_vars

---------------------------------------------------------------------------
(* The store in a directory where something was planted from outside: a     *)
(* symbolic link under an entry's name or under the index's name, pointing  *)
(* to a file elsewhere or to nothing, or an entry that does not decode.     *)

OutsideFile == <<"/","x">>
Missing == <<"/","y">>
Secret == <<"s">>
A_md == <<"a",".","m","d">>

Plants ==
    { [links |-> Put(NoLinks, A_md, OutsideFile),       files |-> Put(NoFiles, OutsideFile, Secret)],
      [links |-> Put(NoLinks, INDEX_FILE, OutsideFile), files |-> Put(NoFiles, OutsideFile, Secret)],
      [links |-> Put(NoLinks, A_md, Missing),           files |-> NoFiles],
      [links |-> Put(NoLinks, INDEX_FILE, Missing),     files |-> NoFiles],
      [links |-> NoLinks,                               files |-> Put(NoFiles, A_md, <<Undecodable>>)] }

EnvTopics == { <<"a">>, <<"a","-","b">> }
EnvContents == { <<"x">>, <<"y","\n","z">> }
EnvModes == {"overwrite", "append"}

EnvInit ==
    /\ dirExists = TRUE
    /\ \E p \in Plants : links = p.links /\ files = p.files
    /\ last = NoCall
    /\ san = NoSan
    /\ io = NoIO
    /\ writers = NoWriters
    /\ hist = NoHist

EnvNext ==
    \/ \E t \in EnvTopics : Read(t)
    \/ \E t \in EnvTopics, c \in EnvContents, m \in EnvModes : Write(t, c, m)
    \/ List
    \/ Return

EnvSpec == EnvInit /\ [][EnvNext]_vars

---------------------------------------------------------------------------
(* The store with writes that meet an I/O failure *)

WriteFailing(topic, content, mode, fault) ==
    LET sp == safe_path(topic)
        w == knowledge_write_failing(dirExists, files, topic, content, mode, fault)
    IN  /\ last = NoCall
        /\ sp.exc = "none"
        /\ mode \in {"overwrite", "append"}
        /\ (mode = "append" /\ Exists(sp.path))
              => /\ ~ReadFails(files, sp.path.name)
                 /\ Len(files[Target(sp.path.name)]) <= MaxAppendBase
        /\ dirExists' = w.dir
        /\ files' = w.fs
        /\ last' = Call("write", topic, content, mode, w.result)
        /\ io' = [read |-> w.opens.read, written |-> w.opens.written, fault |-> fault]
        /\ UNCHANGED <<san, links, writers, hist>>

FaultNext ==
    \/ \E t \in EnvTopics : Read(t)
    \/ \E t \in EnvTopics, c \in EnvContents, m \in EnvModes : Write(t, c, m)
    \/ List
    \/ Return
    \/ \E t \in EnvTopics, c \in EnvContents, m \in EnvModes, f \in Faults :
          WriteFailing(t, c, m, f)

FaultSpec == Init /\ [][FaultNext]_vars

---------------------------------------------------------------------------
(* Two overlapping writes. Nothing in _knowledge_write or _update_index     *)
(* takes a lock, so the file operations of two calls interleave: each step  *)
(* below is one operation on the directory. Path.write_text is open(), which *)
(* creates or truncates the file, then one write at the start of the file.  *)
(* The reads of one rebuild are taken together: the other write changes a   *)
(* single entry, so reading the entries one by one yields what reading them *)
(* at once yields at the moment that entry is read.                         *)

ConcTopics == { <<"a">>, <<"a","-","b">> }
ConcContents == { <<"x">>, <<"y","y">> }
ConcModes == {"overwrite", "append"}

\* the other writer
Other(w) == CHOOSE v \in Writers : v # w

\* a write of `data` at the start of a file holding `old`
Overlay(data, old) == data \o SubSeq(old, Len(data) + 1, Len(old))

\* the history after a step of writer w
Stepped(w, landed) ==
    LET o == writers[Other(w)].pc
    IN  [landed      |-> IF landed THEN Append(hist.landed, w) ELSE hist.landed,
         overlapped  |-> hist.overlapped \/ o \notin {"idle", "done"},
         tornEntry   |-> hist.tornEntry \/ o = "write",
         tornRebuild |-> hist.tornRebuild \/ o \in {"read", "iopen", "iwrite"}]

ConcInit ==
    /\ links = NoLinks
    /\ \/ dirExists = FALSE /\ files = NoFiles
       \/ dirExists = TRUE  /\ files = update_index(TRUE, Put(NoFiles, <<"a",".","m","d">>, <<"z">>))
    /\ last = NoCall
    /\ san = NoSan
    /\ io = NoIO
    /\ writers = NoWriters
    /\ hist = NoHist

\* _safe_path, the mode test, _ensure_dir and, for an append, the read of the
\* existing entry
Begin(w, topic, content, mode) ==
    LET sp == safe_path(topic)
    IN  /\ writers[w].pc = "idle"
        /\ sp.exc = "none"
        /\ mode \in {"overwrite", "append"}
        /\ dirExists' = TRUE
        /\ writers' = [writers EXCEPT ![w] =
              [pc |-> "open", topic |-> sp.topic, name |-> sp.path.name,
               content |-> content, mode |-> mode,
               text |-> WriteText(NewText(dirExists, files, sp.path.name, content, mode)),
               names |-> <<>>, index |-> <<>>]]
        /\ hist' = Stepped(w, FALSE)
        /\ UNCHANGED <<files, last, san, links, io>>

\* mutant: the entry is opened without truncating it
OpenEntry_keep(w) ==
    /\ writers[w].pc = "open"
    /\ files' = IF writers[w].name \in DOMAIN files THEN files
                ELSE Put(files, writers[w].name, <<>>)
    /\ writers' = [writers EXCEPT ![w].pc = "write"]
    /\ hist' = Stepped(w, FALSE)
    /\ UNCHANGED <<dirExists, last, san, links, io>>

\* path.write_text: open(path, "w")
OpenEntry(w) ==
    /\ writers[w].pc = "open"
    /\ files' = Put(files, writers[w].name, <<>>)
    /\ writers' = [writers EXCEPT ![w].pc = "write"]
    /\ hist' = Stepped(w, FALSE)
    /\ UNCHANGED <<dirExists, last, san, links, io>>

\* path.write_text: the write and close
WriteEntry(w) ==
    /\ writers[w].pc = "write"
    /\ files' = Put(files, writers[w].name,
                    Overlay(writers[w].text, files[writers[w].name]))
    /\ writers' = [writers EXCEPT ![w].pc = "scan"]
    /\ hist' = Stepped(w, TRUE)
    /\ UNCHANGED <<dirExists, last, san, links, io>>

\* mutant: the rebuild lists only the entry just written
Scan_own(w) ==
    /\ writers[w].pc = "scan"
    /\ writers' = [writers EXCEPT ![w].pc = "read", ![w].names = <<writers[w].name>>]
    /\ hist' = Stepped(w, FALSE)
    /\ UNCHANGED <<dirExists, files, last, san, links, io>>

\* _update_index: sorted(kdir.glob("*.md"))
Scan(w) ==
    /\ writers[w].pc = "scan"
    /\ writers' = [writers EXCEPT ![w].pc = "read", ![w].names = Sorted(EntryNames(files))]
    /\ hist' = Stepped(w, FALSE)
    /\ UNCHANGED <<dirExists, files, last, san, links, io>>

\* _update_index: the loop reading the listed entries, and index_content
ReadEntries(w) ==
    LET names == writers[w].names
    IN  /\ writers[w].pc = "read"
        /\ writers' = [writers EXCEPT
              ![w].pc = "iopen",
              ![w].index = WriteText(IndexText([i \in DOMAIN names |-> LineOf(files, names[i])]))]
        /\ hist' = Stepped(w, FALSE)
        /\ UNCHANGED <<dirExists, files, last, san, links, io>>

\* (kdir / INDEX_FILE).write_text: open(path, "w")
OpenIndex(w) ==
    /\ writers[w].pc = "iopen"
    /\ files' = Put(files, INDEX_FILE, <<>>)
    /\ writers' = [writers EXCEPT ![w].pc = "iwrite"]
    /\ hist' = Stepped(w, FALSE)
    /\ UNCHANGED <<dirExists, last, san, links, io>>

\* (kdir / INDEX_FILE).write_text: the write and close; the call returns
WriteIndex(w) ==
    /\ writers[w].pc = "iwrite"
    /\ files' = Put(files, INDEX_FILE, Overlay(writers[w].index, files[INDEX_FILE]))
    /\ writers' = [writers EXCEPT ![w].pc = "done"]
    /\ hist' = Stepped(w, FALSE)
    /\ UNCHANGED <<dirExists, last, san, links, io>>

ConcNext ==
    \E w \in Writers :
        \/ \E t \in ConcTopics, c \in ConcContents, m \in ConcModes : Begin(w, t, c, m)
        \/ OpenEntry(w)
        \/ WriteEntry(w)
        \/ Scan(w)
        \/ ReadEntries(w)
        \/ OpenIndex(w)
        \/ WriteIndex(w)

ConcSpec == ConcInit /\ [][ConcNext]_vars

---------------------------------------------------------------------------
(* Properties *)

IsWrite(c) == c.op = "write"
Saved(c) == c.op = "write" /\ c.result.kind = "saved"
Accepted(raw) == sanitize_topic(raw).exc = "none"
\* the file name of the entry of an accepted topic
EntryName(raw) == Strip(raw) \o MdSuffix

\* C1: after write(t, C, "overwrite") has saved, read(t) returns exactly C.
C1_RoundTrip ==
    (Saved(last) /\ last.mode = "overwrite")
        => knowledge_read(dirExists, files, last.topic) = Result("content", last.content)

\* what C2 says read(t) returns after an append of C, given what read(t)
\* returned before it
AppendExpected(before, C) ==
    IF before.kind # "content" THEN C
    ELSE IF before.text = <<>> \/ before.text[Len(before.text)] = "\n"
         THEN before.text \o C
    ELSE before.text \o <<"\n">> \o C

\* C2: write(t, C, "append") leaves the entry equal to E + C when the entry
\* held E, empty or ending with a newline, to E + "\n" + C when E is non-empty
\* without a final newline, and to C when there was no entry.
C2_AppendResult ==
    [][(Saved(last') /\ last'.mode = "append")
         => knowledge_read(dirExists', files', last'.topic)
              = Result("content",
                       AppendExpected(knowledge_read(dirExists, files, last'.topic),
                                      last'.content))]_vars

\* the index lines list() returns in the current state
ListedLines == Range(Split(knowledge_list(dirExists, files).result.text))

\* the first line of text that is not blank once surrounding whitespace and
\* leading '#' are stripped, so stripped, cut to 120 characters
FirstUsable(text) ==
    LET lines == Split(text)
        clean == [i \in DOMAIN lines |-> Strip(LStrip(Strip(lines[i]), {"#"}))]
        k == FirstNotIn(clean, {<<>>})
    IN  IF k = 0 THEN <<>> ELSE Take(clean[k], SUMMARY_MAX)

\* C3 as stated: after a saved write(t, C, mode), list() has a line for t
\* whose summary is the first non-blank line of C, stripped and truncated.
C3_SummaryOfWritten ==
    Saved(last)
        => EntryLine(Strip(last.topic), FirstUsable(last.content)) \in ListedLines

\* C3 amended: after a saved write(t, C, mode), list() has a line for t whose
\* summary is taken from the entry as read(t) now returns it (C after an
\* overwrite, the existing text followed by C after an append): its first
\* line that is non-empty once stripped of whitespace and leading '#',
\* truncated to 120 characters.
C3_SummaryOfEntry ==
    Saved(last)
        => EntryLine(Strip(last.topic),
                     FirstUsable(knowledge_read(dirExists, files, last.topic).text))
             \in ListedLines

C3_Witness ==
    /\ Saved(last)
    /\ last.mode = "append"
    /\ Len(last.content) > SUMMARY_MAX
    /\ EntryLine(Strip(last.topic), Rep("c", SUMMARY_MAX)) \in ListedLines

BadMode(c) == IsWrite(c) /\ c.mode \notin {"overwrite", "append"}

\* C4 as stated: a write with any other mode returns the invalid-mode message
\* and changes nothing.
C4_InvalidModeAnyTopic ==
    [][BadMode(last')
         => /\ last'.result.kind = "invalid_mode"
            /\ UNCHANGED <<dirExists, files>>]_vars

\* C4 amended: for a topic the sanitizer and path resolver accept, a write
\* with any other mode returns the invalid-mode message and changes nothing:
\* no directory, entry or index is created or rewritten and read(t) returns
\* what it returned before.
C4_InvalidMode ==
    [][(BadMode(last') /\ safe_path(last'.topic).exc = "none")
         => /\ last'.result.kind = "invalid_mode"
            /\ UNCHANGED <<dirExists, files>>
            /\ knowledge_read(dirExists', files', last'.topic)
                 = knowledge_read(dirExists, files, last'.topic)]_vars

C4_Witness ==
    /\ BadMode(last)
    /\ last.result.kind = "invalid_mode"
    /\ ~dirExists

\* C5: for a topic the sanitizer rejects, read and write return the
\* invalid-topic message (nothing is raised) and change nothing.
C5_InvalidTopic ==
    [][(last'.op \in {"read", "write"} /\ ~Accepted(last'.topic))
         => /\ last'.result.kind = "invalid_topic"
            /\ UNCHANGED <<dirExists, files>>]_vars

C5_Witness ==
    /\ IsWrite(last)
    /\ last.mode = "overwrite"
    /\ ~Accepted(last.topic)
    /\ last.result.kind = "invalid_topic"
    /\ EntryNames(files) # {}

Refused(v) == v.exc = "ValueError"
ReservedWords == { <<"_","i","n","d","e","x">>, <<"c","o","n">>, <<"p","r","n">>,
                   <<"a","u","x">>, <<"n","u","l">> }

\* C6: the sanitizer rejects every string containing '/', '\' or '..' and
\* every letter-case variant of _index, con, prn, aux, nul; it accepts
\* browser-automation, a and joi_gotchas.
C6_Sanitizer ==
    san.state = "done" =>
        /\ ("/" \in Range(san.raw) \/ "\\" \in Range(san.raw)
              \/ HasPair(san.raw, ".", ".")) => Refused(san.verdict)
        /\ san.raw \in UNION {CaseVariants(w) : w \in ReservedWords}
              => Refused(san.verdict)
        /\ san.raw \in {BrowserAutomation, <<"a">>, JoiGotchas}
              => san.verdict = Ok(san.raw)

C6_Witness ==
    /\ san.state = "done"
    /\ HasPair(san.raw, ".", ".")
    /\ MatchBody(san.raw)
    /\ Refused(san.verdict)

\* the alphanumeric-boundary rule: first and last character alphanumeric,
\* the characters between them letters, digits, underscore, hyphen or dot
BoundaryRule(t) ==
    /\ Len(t) >= 1
    /\ t[1] \in Alnum
    /\ t[Len(t)] \in Alnum
    /\ \A i \in 2..(Len(t) - 1) : t[i] \in Alnum \cup {"_", "-", "."}

TooLong(t) == Len(t) > VALID_INNER_MAX + 2

\* C7 as stated: every input of length 0, of length over 100 or not matching
\* the alphanumeric-boundary rule is rejected.
C7_RejectsRaw ==
    san.state = "done" =>
        ((Len(san.raw) = 0 \/ TooLong(san.raw) \/ ~BoundaryRule(san.raw))
            => Refused(san.verdict))

\* C7 amended: every input that, once its leading and trailing whitespace is
\* trimmed, has length 0, has length over 100 or does not match the
\* alphanumeric-boundary rule is rejected.
C7_RejectsTrimmed ==
    san.state = "done" =>
        ((Len(Strip(san.raw)) = 0 \/ TooLong(Strip(san.raw))
              \/ ~BoundaryRule(Strip(san.raw)))
            => Refused(san.verdict))

C7_Witness ==
    /\ san.state = "done"
    /\ TooLong(Strip(san.raw))
    /\ BoundaryRule(Strip(san.raw))
    /\ Refused(san.verdict)

HasIndex == dirExists /\ INDEX_FILE \in DOMAIN files

\* C8: list() returns an existing index file verbatim and rewrites nothing;
\* with a directory but no index it rebuilds the index and returns it (the
\* "(empty)" body when the directory holds no entry); without a directory it
\* returns the empty-store message and creates neither directory nor index.
C8_List ==
    [][last'.op = "list"
         => IF HasIndex
            THEN /\ UNCHANGED <<dirExists, files>>
                 /\ last'.result = Result("index", files[INDEX_FILE])
            ELSE IF dirExists
            THEN /\ dirExists'
                 /\ files' = Put(files, INDEX_FILE, files'[INDEX_FILE])
                 /\ INDEX_FILE \in DOMAIN files'
                 /\ files'[INDEX_FILE] = IndexContent(files)
                 /\ EntryNames(files) = {} => files'[INDEX_FILE] = IndexHeader \o EmptyBody
                 /\ last'.result = Result("index", files'[INDEX_FILE])
            ELSE /\ UNCHANGED <<dirExists, files>>
                 /\ last'.result = Result("empty_store", <<>>)]_vars

C8_Witness ==
    /\ last.op = "list"
    /\ last.result = Result("index", IndexHeader \o EmptyBody)
    /\ files = Put(NoFiles, INDEX_FILE, IndexHeader \o EmptyBody)

\* C9: read(t) of an accepted topic that has no entry returns the not-found
\* message and raises nothing, also while the directory does not exist.
C9_ReadNotFound ==
    [][(last'.op = "read" /\ Accepted(last'.topic)
          /\ ~(dirExists /\ EntryName(last'.topic) \in DOMAIN files))
         => last'.result = Result("not_found", <<>>)]_vars

C9_Witness ==
    /\ last.op = "read"
    /\ last.result.kind = "not_found"
    /\ ~dirExists

\* C10: read changes nothing: the directory's existence, every entry and the
\* index are the same after read(topic) as before, for every topic.
C10_ReadFrame ==
    [][last'.op = "read" => UNCHANGED <<dirExists, files>>]_vars

C10_Witness ==
    /\ last.op = "read"
    /\ last.result.kind = "content"
    /\ HasIndex

\* every call has returned; each directory a call leaves is found in such a
\* state once its caller has taken the result
Returned == last = NoCall

\* the entry lines of the index file: what follows the two header lines,
\* none when the body is "(empty)"
IndexBody ==
    LET ls == Split(ReadText(files[INDEX_FILE]))
        body == SubSeq(ls, 3, Len(ls) - 1)
    IN  IF body = <<<<"(","e","m","p","t","y",")">>>> THEN <<>> ELSE body

\* the topic an index line "- **topic**: summary" is for
LineTopic(line) ==
    LET stars == {i \in 5..Len(line) : line[i] = "*"}
        k == CHOOSE i \in stars : \A j \in stars : i <= j
    IN  SubSeq(line, 5, k - 1)

\* C11: in every index a rebuild produced, the entry lines are in ascending
\* order of the entry's file name (topic + ".md"), and no line is for the
\* index file itself.
C11_IndexOrder ==
    (HasIndex /\ Returned) =>
        LET body == IndexBody
            name == [i \in DOMAIN body |-> LineTopic(body[i]) \o MdSuffix]
        IN  /\ \A i, j \in DOMAIN name : i < j => StrLess(name[i], name[j])
            /\ \A i \in DOMAIN name : name[i] # INDEX_FILE

C11_Witness ==
    /\ HasIndex
    /\ Returned
    /\ Len(IndexBody) = 2
    /\ LineTopic(IndexBody[1]) = <<"a","-","b">>
    /\ LineTopic(IndexBody[2]) = <<"a">>

\* C12: after write(t, C, "overwrite") has saved, the same write again saves,
\* leaves the directory, every entry and the index as the first write left
\* them, and read(t) then returns C.
C12_OverwriteTwice ==
    (Saved(last) /\ last.mode = "overwrite")
        => LET again == knowledge_write(dirExists, files, last.topic, last.content,
                                        "overwrite")
           IN  /\ again.result.kind = "saved"
               /\ again.dir = dirExists
               /\ again.fs = files
               /\ knowledge_read(again.dir, again.fs, last.topic)
                    = Result("content", last.content)

\* C15: after any sequence of completed calls, whenever the index file
\* exists it is what a rebuild over the current entries produces: one line per existing entry, summarizing the entry's
\* current content, and the "(empty)" body when there is no entry; list()
\* returns exactly that.
C15_IndexFresh ==
    (HasIndex /\ Returned) =>
        LET body == IndexBody
            rebuilt == IndexContent(files)
        IN  /\ Range(body)
                 = {EntryLine(Stem(n), FirstUsable(ReadText(files[n]))) : n \in EntryNames(files)}
            /\ Len(body) = Cardinality(EntryNames(files))
            /\ files[INDEX_FILE] = WriteText(rebuilt)
            /\ knowledge_list(dirExists, files).result.text = rebuilt

C15_Witness ==
    /\ HasIndex
    /\ Returned
    /\ <<"a","-","b",".","m","d">> \in DOMAIN files
    /\ <<"a",".","m","d">> \in DOMAIN files
    /\ files[<<"a",".","m","d">>] = <<" ","#","#"," ","T"," ","\n","x">>
    /\ EntryLine(<<"a">>, <<"T">>) \in Range(IndexBody)
    /\ Len(IndexBody) = 2

\* C20: a write to t leaves the entry of every other topic as it was: every
\* file of the directory other than t's entry and the index is there after
\* the write iff it was there before, with the same content, in both modes.
C20_WriteFrame ==
    [][IsWrite(last')
         => \A n \in (DOMAIN files \cup DOMAIN files') \ {EntryName(last'.topic), INDEX_FILE} :
               /\ n \in DOMAIN files
               /\ n \in DOMAIN files'
               /\ files'[n] = files[n]]_vars

C20_Witness ==
    /\ Saved(last)
    /\ last.mode = "append"
    /\ last.topic = <<"a","-","b">>
    /\ <<"a",".","m","d">> \in DOMAIN files
    /\ files[<<"a",".","m","d">>] # files[<<"a","-","b",".","m","d">>]

\* the topic is accepted by the sanitizer and its file <topic>.md is a
\* symbolic link to a location outside the directory
LinkedOut(raw) ==
    /\ Accepted(raw)
    /\ EntryName(raw) \in DOMAIN links
    /\ Elsewhere(links[EntryName(raw)])

\* in this step the file at `loc` is neither opened nor changed
Untouched(loc) ==
    /\ loc \notin io'.read \cup io'.written
    /\ loc \in DOMAIN files' <=> loc \in DOMAIN files
    /\ loc \in DOMAIN files => files'[loc] = files[loc]

\* C13: for a topic the sanitizer accepts whose file is a symbolic link to a
\* location outside the base directory, read and write return the
\* invalid-topic message and neither read nor modify the file at that
\* location.
C13_PathEscape ==
    [][(last'.op \in {"read", "write"} /\ LinkedOut(last'.topic))
         => /\ last'.result.kind = "invalid_topic"
            /\ Untouched(links[EntryName(last'.topic)])]_vars

C13_Witness ==
    /\ IsWrite(last)
    /\ last.mode = "overwrite"
    /\ LinkedOut(last.topic)
    /\ last.result.kind = "invalid_topic"
    /\ links[EntryName(last.topic)] \in DOMAIN files
    /\ files[links[EntryName(last.topic)]] = Secret

\* C14: no read, write (with its index rebuild) or list (with its lazy
\* rebuild) reads or writes a file outside the base directory, also when an
\* entry's name or the index's name is a symbolic link to a file elsewhere.
C14_Contained ==
    [][last'.op \in {"read", "write", "list"}
         => /\ \A loc \in io'.read \cup io'.written : ~Elsewhere(loc)
            /\ \A loc \in {n \in DOMAIN files \cup DOMAIN files' : Elsewhere(n)} :
                  Untouched(loc)]_vars

\* the lines of the index file that follow its two header lines
IndexLinesNow ==
    LET ls == Split(ReadText(files[Target(INDEX_FILE)]))
    IN  SubSeq(ls, 3, Len(ls) - 1)

\* the last call ran an index rebuild: a write that has written its entry,
\* or a list that has written the index
Rebuilt ==
    /\ io.fault = NoFault
    /\ \/ IsWrite(last) /\ EntryName(last.topic) \in io.written
       \/ last.op = "list" /\ Target(INDEX_FILE) \in io.written

\* C18: a rebuild in which reading an entry fails still completes: the index
\* is written, the call returns as it does without the failure, and the
\* index holds the line "- **topic**: (unreadable)" for every entry that
\* could not be read and the line summarizing its content for every other
\* entry, one line per entry.
C18_UnreadableContained ==
    (Rebuilt /\ \E n \in EntryNames(files) : ReadFails(files, n))
        => /\ Target(INDEX_FILE) \in io.written
           /\ last.result.kind \in {"saved", "index"}
           /\ LET body == IndexLinesNow
              IN  /\ \A n \in EntryNames(files) :
                        IF ReadFails(files, n)
                        THEN EntryLine(Stem(n), Unreadable) \in Range(body)
                        ELSE EntryLine(Stem(n), FirstUsable(ReadText(files[Target(n)])))
                               \in Range(body)
                  /\ Len(body) = Cardinality(EntryNames(files))

C18_Witness ==
    /\ Saved(last)
    /\ last.topic = <<"a","-","b">>
    /\ links = NoLinks
    /\ files[A_md] = <<Undecodable>>
    /\ files[INDEX_FILE]
         = IndexHeader \o EntryLine(<<"a","-","b">>, <<"x">>) \o <<"\n">>
             \o EntryLine(<<"a">>, Unreadable) \o <<"\n">>

\* C19: when the content write of a write succeeds and the index rebuild that
\* follows fails, what the caller gets differs from the success message and
\* from what it gets when the content write fails, and the entry holds the
\* newly written content.
C19_RebuildFailureDistinct ==
    [][(IsWrite(last') /\ io'.fault.point = "index")
         => /\ last'.result.kind # "saved"
            /\ \A e \in Errnos :
                  last'.result
                    # knowledge_write_failing(dirExists, files, last'.topic, last'.content,
                                              last'.mode,
                                              [point |-> "content", errno |-> e]).result
            /\ files'[EntryName(last'.topic)]
                 = WriteText(NewText(dirExists, files, EntryName(last'.topic),
                                     last'.content, last'.mode))]_vars

\* both overlapping writes have returned
BothReturned == \A w \in Writers : writers[w].pc = "done"

\* the writer whose content write landed last
LastLanded == hist.landed[Len(hist.landed)]

\* the lines of the index file that are for `topic`
LinesFor(topic) ==
    LET prefix == EntryLine(topic, <<>>)
    IN  {l \in Range(Split(ReadText(files[INDEX_FILE]))) :
            Len(l) >= Len(prefix) /\ SubSeq(l, 1, Len(prefix)) = prefix}

\* the index has one line for the entry `name`, summarizing what the entry
\* holds
Summarized(name) ==
    LinesFor(Stem(name)) = {EntryLine(Stem(name), FirstUsable(ReadText(files[name])))}

\* C16 as stated: two overlapping writes to one topic, their steps
\* interleaved in any order: once both have returned the entry is exactly
\* what the write that landed last stored, and the index line for the topic
\* summarizes it.
C16_LastWriterWins ==
    (BothReturned /\ writers[1].name = writers[2].name)
        => /\ files[writers[1].name] = writers[LastLanded].text
           /\ Summarized(writers[1].name)

\* C16 amended: two overlapping writes to one topic, where no step of one
\* falls between the other's open and write of the entry or between the
\* other's directory scan and index write: once both have returned the entry
\* is exactly what the write that landed last stored, and the index line for
\* the topic summarizes it.
C16_LastWriterWinsUninterrupted ==
    (BothReturned /\ writers[1].name = writers[2].name
       /\ ~hist.tornEntry /\ ~hist.tornRebuild)
        => /\ files[writers[1].name] = writers[LastLanded].text
           /\ Summarized(writers[1].name)

C16_Witness ==
    /\ BothReturned
    /\ writers[1].name = writers[2].name
    /\ hist.overlapped /\ ~hist.tornEntry /\ ~hist.tornRebuild
    /\ hist.landed = <<2, 1>>
    /\ writers[1].mode = "overwrite"
    /\ writers[1].content = <<"x">>
    /\ writers[2].content = <<"y","y">>
    /\ files[writers[1].name] = <<"x">>

\* C17 as stated: two overlapping writes to distinct topics, their steps
\* interleaved in any order: once both have returned each entry holds what
\* its write stored and the index has a line for each of the two topics,
\* summarizing the entry.
C17_BothSurvive ==
    (BothReturned /\ writers[1].name # writers[2].name)
        => \A w \in Writers :
              /\ files[writers[w].name] = writers[w].text
              /\ Summarized(writers[w].name)

\* C17 amended: two overlapping writes to distinct topics, where no step of
\* one falls between the other's directory scan and index write: once both
\* have returned each entry holds what its write stored and the index has a
\* line for each of the two topics, summarizing the entry.
C17_BothSurviveUninterrupted ==
    (BothReturned /\ writers[1].name # writers[2].name /\ ~hist.tornRebuild)
        => \A w \in Writers :
              /\ files[writers[w].name] = writers[w].text
              /\ Summarized(writers[w].name)

C17_Witness ==
    /\ BothReturned
    /\ writers[1].name # writers[2].name
    /\ hist.overlapped /\ ~hist.tornRebuild
    /\ Cardinality(EntryNames(files)) = 2
    /\ \A w \in Writers : Summarized(writers[w].name)

===========================================================================
